---- MODULE Spec2Model ----
(***************************************************************************)
(* Model of utils_9_11/elastic_solver.py: the two driver functions         *)
(* solve_elasticity_devoir and solve_elasticity_devoir_force.              *)
(*                                                                         *)
(* Units.  Lengths (Lx, Ly, Lcrack, lc, dist_min, dist_max, delta_L and    *)
(* the vertex coordinates) are integers in micrometres, E is in MPa and    *)
(* nu in tenths, so that every default of the source is an integer.        *)
(* mu and lmbda are kept as exact fractions <<numerator, denominator>>.    *)
(* Objects of the finite-element library (function space, measures,        *)
(* forms, the solved field) are records naming what they were built from.  *)
(***************************************************************************)
EXTENDS Integers, Sequences, FiniteSets, TLC

\* ------------------------------------------------------------------ bounds
\* Finest boundary subdivision the mesh generator may return.
MaxSub == 2

\* ------------------------------------------------- defaults of the source
DefaultNu10 == 4
DefaultE == 3000
DefaultLoad == 0
DefaultLx == 100000
DefaultLy == 225000
DefaultLcrack == 10000
DefaultLc == 9000
DefaultRefinementRatio == 10
DefaultDistMin == 30000
DefaultDistMax == 50000
DefaultVerbosity == 10
DefaultDeltaLDevoir == 700
DefaultDeltaLForce == 0

\* np.isclose defaults: atol = 1e-8 m = 1/100 um, rtol = 1e-5 = 1/RtolInv.
AtolInv == 100
RtolInv == 100000

Functions == {"devoir", "force"}

ParamNames ==
  {"nu", "E", "load", "Lx", "Ly", "Lcrack", "lc", "refinement_ratio",
   "dist_min", "dist_max", "verbosity", "delta_L"}

\* Variant: the second signature has another default load.
Defaults_load(f) ==
  [nu |-> DefaultNu10, E |-> DefaultE,
   load |-> IF f = "devoir" THEN DefaultLoad ELSE DefaultLoad + 1,
   Lx |-> DefaultLx, Ly |-> DefaultLy, Lcrack |-> DefaultLcrack,
   lc |-> DefaultLc, refinement_ratio |-> DefaultRefinementRatio,
   dist_min |-> DefaultDistMin, dist_max |-> DefaultDistMax,
   verbosity |-> DefaultVerbosity,
   delta_L |-> IF f = "devoir" THEN DefaultDeltaLDevoir ELSE DefaultDeltaLForce]

\* The parameter defaults of the two signatures.
Defaults(f) ==
  [nu |-> DefaultNu10, E |-> DefaultE, load |-> DefaultLoad,
   Lx |-> DefaultLx, Ly |-> DefaultLy, Lcrack |-> DefaultLcrack,
   lc |-> DefaultLc, refinement_ratio |-> DefaultRefinementRatio,
   dist_min |-> DefaultDistMin, dist_max |-> DefaultDistMax,
   verbosity |-> DefaultVerbosity,
   delta_L |-> IF f = "devoir" THEN DefaultDeltaLDevoir ELSE DefaultDeltaLForce]

\* Values a caller passes explicitly for the parameters the model varies.
ArgVals(p) ==
  CASE p = "Lcrack" -> {30000}
    [] p = "load" -> {5}
    [] p = "delta_L" -> {300}

VariedParams == {"Lcrack", "load", "delta_L"}

\* The call of the commented-out __main__ block.
MainCall ==
  [Lx |-> 1000000, Ly |-> 500000, Lcrack |-> 300000, lc |-> 50000,
   refinement_ratio |-> 10, dist_min |-> 200000, dist_max |-> 300000]

\* The keyword arguments of a call: a function from the passed names.
PassedChoices ==
  {MainCall} \cup
  UNION { {q \in [S -> UNION {ArgVals(p) : p \in VariedParams}] :
             \A p \in S : q[p] \in ArgVals(p)} : S \in SUBSET VariedParams }

\* Python binds each parameter to the passed value, else to its default.
BindArgs(f, passed) ==
  [p \in ParamNames |->
     IF p \in DOMAIN passed THEN passed[p] ELSE Defaults(f)[p]]

\* ---------------------------------------------------------------- numpy
Abs(n) == IF n < 0 THEN -n ELSE n

\* np.isclose(a, b): |a - b| <= atol + rtol * |b|, on integer micrometres
\* (|a - b| * AtolInv * RtolInv <= RtolInv + AtolInv * |b|, kept within
\* 32 bits by dividing first; |a - b| is an integer so the floor is exact).
IsClose(a, b) ==
  Abs(a - b) <= (RtolInv + AtolInv * Abs(b)) \div (AtolInv * RtolInv)

\* ------------------------------------------- meshes.generate_mesh_with_crack
\* The generator is external.  Its result is a triangulation of the rectangle
\* [0,Lx] x [0,Ly] whose bottom edge carries the crack face 0 <= x <= Lcrack
\* with a vertex at the crack tip (Lcrack, 0).  Only the boundary matters to
\* the drivers, so a mesh is its vertices and its boundary facets; which mesh
\* comes back is the generator's choice w = [n, scheme].
TagSchemes == {"AllOne", "ByEdge"}

MeshOutcomes == [n : 1..MaxSub, scheme : TagSchemes]

\* Consecutive points of a set of abscissae: the facets of one edge.
Chain(S) ==
  {e \in {{a, b} : a, b \in S} :
     \E a, b \in e : a < b /\ ~(\E c \in S : a < c /\ c < b)}

\* Abscissae of the bottom vertices: the corners, the crack tip, and n
\* subdivisions of the crack face and of the uncracked ligament.
BottomXs(Lcrack, Lx, n) ==
  {0, Lx} \cup
  (IF Lcrack >= 0 /\ Lcrack <= Lx
     THEN {(k * Lcrack) \div n : k \in 0..n} \cup
          {Lcrack + (k * (Lx - Lcrack)) \div n : k \in 0..n}
     ELSE {})

EdgeCuts(L, n) == {(k * L) \div n : k \in 0..n}

\* The facets of a horizontal edge at height y / a vertical edge at x.
HFacets(S, y) == {{<<a, y>> : a \in e} : e \in Chain(S)}

VFacets(S, x) == {{<<x, b>> : b \in e} : e \in Chain(S)}

BottomFacets(Lcrack, Lx, n) == HFacets(BottomXs(Lcrack, Lx, n), 0)

TopFacets(Lx, Ly, n) == HFacets(EdgeCuts(Lx, n), Ly)

SideFacets(x, Ly, n) == VFacets(EdgeCuts(Ly, n), x)

BoundaryFacets(Lcrack, Lx, Ly, n) ==
  BottomFacets(Lcrack, Lx, n) \cup TopFacets(Lx, Ly, n) \cup
  SideFacets(0, Ly, n) \cup SideFacets(Lx, Ly, n)

\* The facet tags the generator hands back (third component of its result).
GeneratorFacetTags(Lcrack, Lx, Ly, w) ==
  [f \in BoundaryFacets(Lcrack, Lx, Ly, w.n) |->
     IF w.scheme = "AllOne" THEN 1
     ELSE IF f \in BottomFacets(Lcrack, Lx, w.n) THEN 1
     ELSE IF f \in SideFacets(Lx, Ly, w.n) THEN 2
     ELSE IF f \in TopFacets(Lx, Ly, w.n) THEN 3
     ELSE 4]

\* msh, mt, ft = generate_mesh_with_crack(...): one interior vertex stands
\* for the interior of the triangulation.
GeneratedMesh(Lcrack, Lx, Ly, w) ==
  [verts |-> UNION BoundaryFacets(Lcrack, Lx, Ly, w.n) \cup
             {<<Lx \div 2, Ly \div 2>>},
   bfacets |-> BoundaryFacets(Lcrack, Lx, Ly, w.n),
   dim |-> 2]

GeneratedCellTags(w) == [dim |-> 2, tags |-> <<>>]

GeneratedFacetTags(Lcrack, Lx, Ly, w) ==
  [dim |-> 1, tags |-> GeneratorFacetTags(Lcrack, Lx, Ly, w)]

\* ------------------------------------------------------------- dolfinx
\* fem.functionspace(msh, ("Lagrange", 1, (2,))): one dof per vertex and
\* component; V.sub(i) is the i-th component.
FunctionSpace(msh, element) == [mesh |-> msh, element |-> element]

Sub(V, i) == [space |-> V, comp |-> i]

\* mesh.locate_entities_boundary(msh, dim, marker): the marker is evaluated
\* on the vertices (marked is the set of those it accepts) and the boundary
\* entities all of whose vertices are marked are returned.
LocateEntitiesBoundary(msh, dim, marked) ==
  {f \in msh.bfacets : \A x \in f : x \in marked}

\* fem.locate_dofs_topological(V.sub(i), dim, entities): the dofs of the
\* sub-space attached to the closure of the entities (P1: their vertices).
LocateDofsTopological(Vsub, dim, entities) ==
  {<<x, Vsub.comp>> : x \in UNION entities}

\* fem.dirichletbc(value, dofs, V.sub(i))
DirichletBC(value, dofs, Vsub) ==
  [value |-> value, dofs |-> dofs, space |-> Vsub]

\* mesh.meshtags(msh, dim, entities, value)
MeshTags(msh, dim, entities, value) ==
  [dim |-> dim, tags |-> [f \in entities |-> value]]

\* ---------------------------------------------------------------- ufl
Measure(kind, domain, subdomain_data) ==
  [kind |-> kind, domain |-> domain, subdomain_data |-> subdomain_data]

\* ds(1): the measure restricted to the facets tagged with the given id.
Restrict(measure, id) == [measure |-> measure, id |-> id]

TrialFunction(V) == [kind |-> "trial", space |-> V, name |-> "u"]

TestFunction(V) == [kind |-> "test", space |-> V, name |-> "v"]

\* ------------------------------------------------- the frame of a call
\* The local names of a call are a function from the names bound so far.
Bind(fr, name, val) ==
  [k \in DOMAIN fr \cup {name} |-> IF k = name THEN val ELSE fr[k]]

\* Variant: the comparison with the crack length is not strict.
bottom_no_crack_closed(x, Lcrack) == IsClose(x[2], 0) /\ x[1] >= Lcrack

\* def bottom_no_crack(x): np.logical_and(np.isclose(x[1], 0.0), x[0] > Lcrack)
bottom_no_crack(x, Lcrack) == IsClose(x[2], 0) /\ x[1] > Lcrack

\* def top(x): np.isclose(x[1], Ly)
top(x, Ly) == IsClose(x[2], Ly)

\* mu = E / (2.0 * (1.0 + nu)), as a fraction (nu in tenths).
Mu(E, nu) == <<E * 10, 2 * (10 + nu)>>

\* lmbda = E * nu / ((1.0 + nu) * (1.0 - 2.0 * nu)), as a fraction.
Lmbda(E, nu) == <<E * nu * 10, (10 + nu) * (10 - 2 * nu)>>

\* def eps(u): ufl.sym(ufl.grad(u))
eps(u) == [op |-> "sym_grad", of |-> u]

\* def sigma(eps): 2.0 * mu * eps + lmbda * ufl.tr(eps) * ufl.Identity(2)
sigma(e, fr) ==
  [op |-> "stress", two_mu |-> <<2 * fr.mu[1], fr.mu[2]>>,
   lmbda |-> fr.lmbda, of |-> e]

\* def a(u, v): ufl.inner(sigma(eps(u)), eps(v)) * dx
a(u, v, fr) ==
  [op |-> "inner", left |-> sigma(eps(u), fr), right |-> eps(v),
   measure |-> fr.dx]

\* def L(v): ufl.dot(b, v) * dx + ufl.dot(f, v) * ds(1)
L(v, fr) ==
  [volume |-> [force |-> <<0, 0>>, test |-> v, measure |-> fr.dx],
   surface |-> [force |-> <<0, fr.load>>, test |-> v,
                measure |-> Restrict(fr.ds, 1)]]

\* Variant: the factor 0.5 of the strain energy is missing.
EnergyForm_nohalf(fr) ==
  [coef_a |-> <<1, 1>>, a |-> a(fr.uh, fr.uh, fr),
   coef_L |-> -1, L |-> L(fr.uh, fr)]

\* 0.5 * a(uh, uh) - L(uh)
EnergyForm(fr) ==
  [coef_a |-> <<1, 2>>, a |-> a(fr.uh, fr.uh, fr),
   coef_L |-> -1, L |-> L(fr.uh, fr)]

\* Variant: the x-component is constrained instead.
YSubspace_x(V) == Sub(V, 0)

\* V.sub(1): every boundary condition is built on the y-component.
YSubspace(V) == Sub(V, 1)

\* Variant: the measure keeps the facet tags of the mesh generator.
FacetMeasure_generator(fr) == Measure("ds", <<>>, fr.ft)

\* ds = ufl.Measure("ds", subdomain_data=mt), mt being the tags rebuilt from
\* the top facets and no longer the generator's.
FacetMeasure(fr) == Measure("ds", <<>>, fr.mt)

\* Variant: the traction-only function also hands over the top condition.
BcsList_both(f, fr) == <<fr.bc_bottom, fr.bc_top>>

\* bcs = [bc_bottom, bc_top]   /   bcs = [bc_bottom]
BcsList(f, fr) ==
  IF f = "devoir" THEN <<fr.bc_bottom, fr.bc_top>> ELSE <<fr.bc_bottom>>

PetscOptions == [ksp_type |-> "preonly", pc_type |-> "lu"]

\* ------------------------------------------------ the steps of a call
\* The body of either function, one step per external call, in source order.
Steps ==
  << "generate_mesh", "functionspace",
     "bottom_facets", "bottom_dofs", "top_facets", "top_dofs",
     "bc_bottom", "bc_top",
     "measure_dx", "tag_facets", "meshtags", "measure_ds",
     "trial", "test", "forms", "linear_problem", "solve",
     "assemble_scalar", "print", "stress" >>

StepSet == {Steps[i] : i \in 1..Len(Steps)}

StepIndex(s) == CHOOSE i \in 1..Len(Steps) : Steps[i] = s

\* Variant: the measures of the forms are built before the Dirichlet
\* conditions.
NextPc_reordered(s) ==
  LET R == << "generate_mesh", "functionspace",
              "bottom_facets", "bottom_dofs", "top_facets", "top_dofs",
              "measure_dx", "tag_facets", "meshtags", "measure_ds",
              "bc_bottom", "bc_top",
              "trial", "test", "forms", "linear_problem", "solve",
              "assemble_scalar", "print", "stress" >>
      i == CHOOSE j \in 1..Len(R) : R[j] = s
  IN  IF i = Len(R) THEN "return" ELSE R[i + 1]

\* Control passes to the next statement; after the last one the function
\* returns.
NextPc(s) ==
  IF StepIndex(s) = Len(Steps) THEN "return" ELSE Steps[StepIndex(s) + 1]

\* Variant: the exception is swallowed and the body goes on.
AfterRaise_swallow(s) == NextPc(s)

\* No try/except surrounds any statement: an exception leaves the function.
AfterRaise(s) == "raised"

\* The external call issued by a step, with the values of its arguments.
ExternalCall(s, fr) ==
  CASE s = "generate_mesh" ->
         [fn |-> "generate_mesh_with_crack",
          args |-> [Lcrack |-> fr.Lcrack, Lx |-> fr.Lx, Ly |-> fr.Ly,
                    lc |-> fr.lc, refinement_ratio |-> fr.refinement_ratio,
                    dist_min |-> fr.dist_min, dist_max |-> fr.dist_max,
                    verbosity |-> fr.verbosity]]
    [] s = "functionspace" ->
         [fn |-> "fem.functionspace",
          args |-> [mesh |-> fr.msh, element |-> <<"Lagrange", 1, <<2>> >>]]
    [] s = "bottom_facets" ->
         [fn |-> "mesh.locate_entities_boundary",
          args |-> [mesh |-> fr.msh, dim |-> fr.msh.dim - 1,
                    marker |-> [name |-> "bottom_no_crack",
                                closure |-> fr.Lcrack]]]
    [] s = "bottom_dofs" ->
         [fn |-> "fem.locate_dofs_topological",
          args |-> [V |-> YSubspace(fr.V), dim |-> fr.msh.dim - 1,
                    entities |-> fr.bottom_no_crack_facets]]
    [] s = "top_facets" ->
         [fn |-> "mesh.locate_entities_boundary",
          args |-> [mesh |-> fr.msh, dim |-> fr.msh.dim - 1,
                    marker |-> [name |-> "top", closure |-> fr.Ly]]]
    [] s = "top_dofs" ->
         [fn |-> "fem.locate_dofs_topological",
          args |-> [V |-> YSubspace(fr.V), dim |-> fr.msh.dim - 1,
                    entities |-> fr.top_facets]]
    [] s = "bc_bottom" ->
         [fn |-> "fem.dirichletbc",
          args |-> [value |-> 0, dofs |-> fr.bottom_no_crack_dofs_y,
                    V |-> YSubspace(fr.V)]]
    [] s = "bc_top" ->
         [fn |-> "fem.dirichletbc",
          args |-> [value |-> fr.delta_L, dofs |-> fr.top_dofs_y,
                    V |-> YSubspace(fr.V)]]
    [] s = "measure_dx" ->
         [fn |-> "ufl.Measure", args |-> [kind |-> "dx", domain |-> fr.msh]]
    [] s = "tag_facets" ->
         [fn |-> "mesh.locate_entities_boundary",
          args |-> [mesh |-> fr.msh, dim |-> 1,
                    marker |-> [name |-> "lambda", closure |-> fr.Ly]]]
    [] s = "meshtags" ->
         [fn |-> "mesh.meshtags",
          args |-> [mesh |-> fr.msh, dim |-> 1,
                    entities |-> fr.top_facets, value |-> 1]]
    [] s = "measure_ds" ->
         [fn |-> "ufl.Measure",
          args |-> [kind |-> "ds", subdomain_data |-> fr.mt]]
    [] s = "trial" -> [fn |-> "ufl.TrialFunction", args |-> [V |-> fr.V]]
    [] s = "test" -> [fn |-> "ufl.TestFunction", args |-> [V |-> fr.V]]
    [] s = "forms" ->
         [fn |-> "ufl.forms",
          args |-> [mu |-> fr.mu, lmbda |-> fr.lmbda, load |-> fr.load,
                    u |-> fr.u, v |-> fr.v, dx |-> fr.dx, ds |-> fr.ds]]
    [] s = "linear_problem" ->
         [fn |-> "fem.petsc.LinearProblem",
          args |-> [a |-> fr.a_uv, L |-> fr.L_v, bcs |-> fr.bcs,
                    petsc_options |-> PetscOptions]]
    [] s = "solve" ->
         [fn |-> "LinearProblem.solve", args |-> [problem |-> fr.problem]]
    [] s = "assemble_scalar" ->
         [fn |-> "fem.assemble_scalar", args |-> [form |-> EnergyForm(fr)]]
    [] s = "print" ->
         [fn |-> "print",
          args |-> [Lcrack |-> fr.Lcrack, energy |-> fr.energy]]
    [] s = "stress" ->
         [fn |-> "ufl.stress", args |-> [mu |-> fr.mu, lmbda |-> fr.lmbda,
                                         uh |-> fr.uh]]

\* The names a step binds once its external call has returned; w is the
\* mesh the generator chose.
FrameAfter(s, f, fr, w) ==
  CASE s = "generate_mesh" ->
         Bind(Bind(Bind(fr,
           "msh", GeneratedMesh(fr.Lcrack, fr.Lx, fr.Ly, w)),
           "mt", GeneratedCellTags(w)),
           "ft", GeneratedFacetTags(fr.Lcrack, fr.Lx, fr.Ly, w))
    [] s = "functionspace" ->
         Bind(fr, "V", FunctionSpace(fr.msh, <<"Lagrange", 1, <<2>> >>))
    [] s = "bottom_facets" ->
         Bind(fr, "bottom_no_crack_facets",
              LocateEntitiesBoundary(fr.msh, fr.msh.dim - 1,
                {x \in fr.msh.verts : bottom_no_crack(x, fr.Lcrack)}))
    [] s = "bottom_dofs" ->
         Bind(fr, "bottom_no_crack_dofs_y",
              LocateDofsTopological(YSubspace(fr.V), fr.msh.dim - 1,
                                    fr.bottom_no_crack_facets))
    [] s = "top_facets" ->
         Bind(fr, "top_facets",
              LocateEntitiesBoundary(fr.msh, fr.msh.dim - 1,
                {x \in fr.msh.verts : top(x, fr.Ly)}))
    [] s = "top_dofs" ->
         Bind(fr, "top_dofs_y",
              LocateDofsTopological(YSubspace(fr.V), fr.msh.dim - 1,
                                    fr.top_facets))
    [] s = "bc_bottom" ->
         Bind(fr, "bc_bottom",
              DirichletBC(0, fr.bottom_no_crack_dofs_y, YSubspace(fr.V)))
    [] s = "bc_top" ->
         LET fr1 == Bind(fr, "bc_top",
                         DirichletBC(fr.delta_L, fr.top_dofs_y, YSubspace(fr.V)))
         IN  Bind(fr1, "bcs", BcsList(f, fr1))
    [] s = "measure_dx" ->
         Bind(fr, "dx", Measure("dx", fr.msh, <<>>))
    [] s = "tag_facets" ->
         Bind(fr, "top_facets",
              LocateEntitiesBoundary(fr.msh, 1,
                {x \in fr.msh.verts : IsClose(x[2], fr.Ly)}))
    [] s = "meshtags" ->
         Bind(fr, "mt", MeshTags(fr.msh, 1, fr.top_facets, 1))
    [] s = "measure_ds" ->
         Bind(fr, "ds", FacetMeasure(fr))
    [] s = "trial" -> Bind(fr, "u", TrialFunction(fr.V))
    [] s = "test" ->
         Bind(Bind(Bind(fr, "v", TestFunction(fr.V)),
           "mu", Mu(fr.E, fr.nu)),
           "lmbda", Lmbda(fr.E, fr.nu))
    [] s = "forms" ->
         Bind(Bind(fr, "a_uv", a(fr.u, fr.v, fr)), "L_v", L(fr.v, fr))
    [] s = "linear_problem" ->
         Bind(fr, "problem",
              [a |-> fr.a_uv, L |-> fr.L_v, bcs |-> fr.bcs,
               petsc_options |-> PetscOptions])
    [] s = "solve" ->
         Bind(fr, "uh",
              [kind |-> "solution", space |-> fr.V, name |-> "displacement",
               of |-> fr.problem])
    [] s = "assemble_scalar" ->
         Bind(fr, "energy", [assembled |-> EnergyForm(fr)])
    [] s = "print" -> fr
    [] s = "stress" -> Bind(fr, "sigma_ufl", sigma(eps(fr.uh), fr))

\* ------------------------------------------------------------- state
VARIABLES
  pc,       \* "idle", the step about to run, "return", "returned", "raised"
  fn,       \* the function being called
  passed,   \* the keyword arguments of the call
  frame,    \* the local names of the running call
  w,        \* the mesh the generator chose in this call
  calls,    \* the external calls issued by this call, in order
  stdout,   \* the lines printed by this call
  result,   \* what the caller receives: a returned triple or an exception
  last      \* the bound arguments of the previous call (history)

vars == <<pc, fn, passed, frame, w, calls, stdout, result, last>>

NoFrame == [k \in {} |-> 0]

NoMesh == [n |-> 1, scheme |-> "AllOne"]

Pending == [kind |-> "pending"]

\* Variant: a parameter that is not passed keeps the value it had in the
\* previous call.
EnterFrame_stale(f, p, history) ==
  [k \in ParamNames |->
     IF k \in DOMAIN p THEN p[k]
     ELSE IF k \in DOMAIN history THEN history[k] ELSE Defaults(f)[k]]

\* A call creates a fresh frame holding the bound parameters only; nothing
\* of an earlier call is visible in it.
EnterFrame(f, p, history) == BindArgs(f, p)

Init ==
  /\ pc = "idle"
  /\ fn = "devoir"
  /\ passed = NoFrame
  /\ frame = NoFrame
  /\ w = NoMesh
  /\ calls = <<>>
  /\ stdout = <<>>
  /\ result = Pending
  /\ last = NoFrame

\* The caller invokes one of the two functions with some keyword arguments.
Call(f, p) ==
  /\ pc \in {"idle", "returned", "raised"}
  /\ pc' = Steps[1]
  /\ fn' = f
  /\ passed' = p
  /\ frame' = EnterFrame(f, p, last)
  /\ w' = NoMesh
  /\ calls' = <<>>
  /\ stdout' = <<>>
  /\ result' = Pending
  /\ last' = last

\* A step whose external call returns normally.
Advance(s, ww) ==
  /\ pc = s
  /\ calls' = Append(calls, ExternalCall(s, frame))
  /\ frame' = FrameAfter(s, fn, frame, ww)
  /\ w' = ww
  /\ pc' = NextPc(s)
  /\ UNCHANGED <<fn, passed, result, last>>

GenerateMesh ==
  /\ \E ww \in MeshOutcomes : Advance("generate_mesh", ww)
  /\ UNCHANGED stdout

FunctionSpaceStep == Advance("functionspace", w) /\ UNCHANGED stdout

LocateBottomFacets == Advance("bottom_facets", w) /\ UNCHANGED stdout

LocateBottomDofs == Advance("bottom_dofs", w) /\ UNCHANGED stdout

LocateTopFacets == Advance("top_facets", w) /\ UNCHANGED stdout

LocateTopDofs == Advance("top_dofs", w) /\ UNCHANGED stdout

BuildBcBottom == Advance("bc_bottom", w) /\ UNCHANGED stdout

BuildBcTop == Advance("bc_top", w) /\ UNCHANGED stdout

MeasureDx == Advance("measure_dx", w) /\ UNCHANGED stdout

TagTopFacets == Advance("tag_facets", w) /\ UNCHANGED stdout

BuildMeshTags == Advance("meshtags", w) /\ UNCHANGED stdout

MeasureDs == Advance("measure_ds", w) /\ UNCHANGED stdout

Trial == Advance("trial", w) /\ UNCHANGED stdout

Test == Advance("test", w) /\ UNCHANGED stdout

DefineForms == Advance("forms", w) /\ UNCHANGED stdout

BuildLinearProblem == Advance("linear_problem", w) /\ UNCHANGED stdout

Solve == Advance("solve", w) /\ UNCHANGED stdout

AssembleEnergy == Advance("assemble_scalar", w) /\ UNCHANGED stdout

PrintEnergy ==
  /\ Advance("print", w)
  /\ stdout' = Append(stdout, [Lcrack |-> frame.Lcrack, energy |-> frame.energy])

Stress == Advance("stress", w) /\ UNCHANGED stdout

\* return uh, energy, sigma_ufl
Return ==
  /\ pc = "return"
  /\ result' = [kind |-> "return", uh |-> frame.uh, energy |-> frame.energy,
                sigma_ufl |-> frame.sigma_ufl]
  /\ pc' = "returned"
  /\ last' = [p \in ParamNames |-> frame[p]]
  /\ frame' = NoFrame
  /\ UNCHANGED <<fn, passed, w, calls, stdout>>

\* The external call of the current step raises: the call was issued, binds
\* nothing, and its exception reaches the caller.
Raise ==
  /\ pc \in StepSet
  /\ calls' = Append(calls, ExternalCall(pc, frame))
  /\ result' = [kind |-> "raise", by |-> ExternalCall(pc, frame).fn,
                at |-> Len(calls) + 1]
  /\ pc' = AfterRaise(pc)
  /\ last' = IF AfterRaise(pc) = "raised"
               THEN [p \in ParamNames |-> frame[p]] ELSE last
  /\ frame' = IF AfterRaise(pc) = "raised" THEN NoFrame ELSE frame
  /\ UNCHANGED <<fn, passed, w, stdout>>

Next ==
  \/ \E f \in Functions, p \in PassedChoices : Call(f, p)
  \/ GenerateMesh
  \/ FunctionSpaceStep
  \/ LocateBottomFacets
  \/ LocateBottomDofs
  \/ LocateTopFacets
  \/ LocateTopDofs
  \/ BuildBcBottom
  \/ BuildBcTop
  \/ MeasureDx
  \/ TagTopFacets
  \/ BuildMeshTags
  \/ MeasureDs
  \/ Trial
  \/ Test
  \/ DefineForms
  \/ BuildLinearProblem
  \/ Solve
  \/ AssembleEnergy
  \/ PrintEnergy
  \/ Stress
  \/ Return
  \/ Raise

Spec == Init /\ [][Next]_vars

TypeOK ==
  /\ pc \in {"idle", "return", "returned", "raised"} \cup StepSet
  /\ fn \in Functions

\* ------------------------------------------------ runs, recomputed
\* The frame in which step number k runs, when the call started step
\* number i in frame fr and the generator chose ww.
RECURSIVE RunFrom(_, _, _, _, _)
RunFrom(f, fr, ww, i, k) ==
  IF k <= i THEN fr
  ELSE FrameAfter(Steps[k - 1], f, RunFrom(f, fr, ww, i, k - 1), ww)

\* The frame in which step number k of a call runs.
FrameBefore(f, fr0, ww, k) == RunFrom(f, fr0, ww, 1, k)

\* The external calls of steps number i to n, step i running in frame fr.
RECURSIVE RunTrace(_, _, _, _, _)
RunTrace(f, fr, ww, i, n) ==
  IF i > n THEN <<>>
  ELSE <<ExternalCall(Steps[i], fr)>> \o
       (IF i = n THEN <<>>
        ELSE RunTrace(f, FrameAfter(Steps[i], f, fr, ww), ww, i + 1, n))

\* The first n external calls of a call made as the first call of a session.
FreshTrace(f, p, ww, n) ==
  RunTrace(f, EnterFrame(f, p, NoFrame), ww, 1, n)

Names(cs) == [i \in 1..Len(cs) |-> cs[i].fn]

Other(f) == IF f = "devoir" THEN "force" ELSE "devoir"

\* ================================================================ claims

\* The external calls of a complete call, by library function, in the order
\* (a) mesh, (b) function space, (c) boundary location and Dirichlet
\* conditions, (d) measures and forms, (e) solve, (f) energy.
ExpectedOrder ==
  << "generate_mesh_with_crack",
     "fem.functionspace",
     "mesh.locate_entities_boundary", "fem.locate_dofs_topological",
     "mesh.locate_entities_boundary", "fem.locate_dofs_topological",
     "fem.dirichletbc", "fem.dirichletbc",
     "ufl.Measure", "mesh.locate_entities_boundary", "mesh.meshtags",
     "ufl.Measure", "ufl.TrialFunction", "ufl.TestFunction", "ufl.forms",
     "fem.petsc.LinearProblem", "LinearProblem.solve",
     "fem.assemble_scalar", "print", "ufl.stress" >>

Count(cs, name) == Cardinality({i \in 1..Len(cs) : cs[i].fn = name})

\* C1: the external calls of a call are always an initial part of the fixed
\* order mesh, function space, boundary location and Dirichlet conditions,
\* forms, solve, energy; a call that returns has issued all of them, the mesh
\* generation, the function space, the direct (preonly + LU) solve and the
\* energy assembly exactly once each; the energy is assembled only after the
\* solve has returned, and the function returns only after the energy is
\* assembled.
C1_FixedOrder ==
  /\ Len(calls) <= Len(ExpectedOrder)
  /\ \A i \in 1..Len(calls) : calls[i].fn = ExpectedOrder[i]
  /\ \A i \in 1..Len(calls) :
       calls[i].fn = "fem.assemble_scalar" =>
         /\ \E j \in 1..(i - 1) : calls[j].fn = "LinearProblem.solve"
         /\ result.kind = "raise" => result.at > i - 1
  /\ result.kind = "return" =>
       /\ Names(calls) = ExpectedOrder
       /\ \A name \in {"generate_mesh_with_crack", "fem.functionspace",
                       "fem.petsc.LinearProblem", "LinearProblem.solve",
                       "fem.assemble_scalar"} : Count(calls, name) = 1
       /\ \E i \in 1..Len(calls) :
            /\ calls[i].fn = "fem.petsc.LinearProblem"
            /\ calls[i].args.petsc_options =
                 [ksp_type |-> "preonly", pc_type |-> "lu"]
            /\ calls[i + 1].fn = "LinearProblem.solve"
            /\ calls[i + 1].args.problem.bcs = calls[i].args.bcs
       /\ result.energy.assembled = calls[18].args.form

C1_Witness ==
  /\ pc = "returned"
  /\ result.kind = "return"
  /\ Len(calls) = Len(ExpectedOrder)

\* C4: when an external call raises, the caller receives the failure of
\* that very call, the failing call is the last external call of the
\* function (no later step runs), nothing is printed unless the energy had
\* already been assembled, and no (uh, energy, sigma) result is returned.
C4_FailurePropagates ==
  /\ pc = "raised" <=> result.kind = "raise"
  /\ result.kind = "raise" =>
       /\ result.at = Len(calls)
       /\ result.by = calls[Len(calls)].fn
       /\ DOMAIN result = {"kind", "by", "at"}
       /\ frame = NoFrame
       /\ (stdout # <<>> => Count(calls, "fem.assemble_scalar") = 1
                            /\ result.at > 18)
       /\ \A i \in 1..Len(calls) :
            calls[i].fn = "LinearProblem.solve" => result.at >= i

C4_Witness ==
  /\ pc = "raised"
  /\ result.kind = "raise"
  /\ result.by = "LinearProblem.solve"
  /\ stdout = <<>>

\* The forms handed to the solver, evaluated on a field instead of the
\* trial and test functions.
AOn(aform, x) == [aform EXCEPT !.left.of.of = x, !.right.of = x]

LOn(Lform, x) == [Lform EXCEPT !.volume.test = x, !.surface.test = x]

\* C5: a call that returns gives back the field uh produced by the solve of
\* the problem built in that same call, the energy assembled from
\* 0.5*a(uh,uh) - L(uh) with a and L the forms handed to the solver, and the
\* stress sigma(eps(uh)) with the same mu and lmbda.
C5_EnergyOfSolvedField ==
  result.kind = "return" =>
    LET prob == calls[16].args
        uh == result.uh
    IN  /\ uh.kind = "solution"
        /\ uh.name = "displacement"
        /\ uh.of.a = prob.a /\ uh.of.L = prob.L /\ uh.of.bcs = prob.bcs
        /\ calls[17].args.problem = uh.of
        /\ result.energy =
             [assembled |-> [coef_a |-> <<1, 2>>, a |-> AOn(prob.a, uh),
                             coef_L |-> -1, L |-> LOn(prob.L, uh)]]
        /\ result.sigma_ufl =
             [op |-> "stress", two_mu |-> prob.a.left.two_mu,
              lmbda |-> prob.a.left.lmbda,
              of |-> [op |-> "sym_grad", of |-> uh]]
        /\ prob.a.left.two_mu =
             <<2 * 10 * BindArgs(fn, passed).E,
               2 * (10 + BindArgs(fn, passed).nu)>>
        /\ prob.L.surface.force = <<0, BindArgs(fn, passed).load>>

C5_Witness ==
  /\ pc = "returned"
  /\ result.kind = "return"
  /\ result.energy.assembled.L.surface.force = <<0, 5>>

\* What the current call handed to LinearProblem, once it has.
Handed == calls[16].args

HasHanded == Len(calls) >= 16 /\ calls[16].fn = "fem.petsc.LinearProblem"

TheMesh == calls[2].args.mesh

TheArgs == BindArgs(fn, passed)

\* The y-dofs of the boundary facets lying on y = 0 to the right of the
\* crack tip, and the y-dofs of the vertices of the top edge.
UncrackedBottomDofs(m, Lcrack) ==
  {<<x, 1>> : x \in UNION {f \in m.bfacets :
                             \A v \in f : v[2] = 0 /\ v[1] > Lcrack}}

TopDofs(m, Ly) == {<<x, 1>> : x \in {v \in m.verts : v[2] = Ly}}

\* C3: the Dirichlet conditions handed to the solver are, in
\* solve_elasticity_devoir, y-displacement 0 on the uncracked bottom dofs
\* and y-displacement delta_L on the top dofs, and in
\* solve_elasticity_devoir_force the bottom condition alone.
C3_DirichletSet ==
  HasHanded =>
    LET bottom == UncrackedBottomDofs(TheMesh, TheArgs.Lcrack)
        topd == TopDofs(TheMesh, TheArgs.Ly)
        bcs == Handed.bcs
    IN  /\ Len(bcs) = (IF fn = "devoir" THEN 2 ELSE 1)
        /\ bcs[1].value = 0 /\ bcs[1].dofs = bottom
        /\ fn = "devoir" =>
             bcs[2].value = TheArgs.delta_L /\ bcs[2].dofs = topd
        /\ fn = "force" =>
             \A i \in 1..Len(bcs) : bcs[i].dofs \cap topd = {}

C3_Witness ==
  /\ HasHanded
  /\ fn = "force"
  /\ TheArgs.delta_L # 0
  /\ Handed.bcs[1].dofs # {}
  /\ TopDofs(TheMesh, TheArgs.Ly) # {}

\* The dofs given a prescribed value by the conditions handed to the solver.
Constrained == UNION {Handed.bcs[i].dofs : i \in 1..Len(Handed.bcs)}

OnCrackFace(v, Lcrack) == v[2] = 0 /\ v[1] <= Lcrack

\* C7: the bottom facets selected are exactly the boundary facets all of
\* whose vertices have y = 0 and x > Lcrack, and no dof of a vertex of the
\* crack face (y = 0, x <= Lcrack), crack tip included, is constrained.
C7_CrackFaceFree ==
  /\ Len(calls) >= 4 =>
       calls[4].args.entities =
         {f \in TheMesh.bfacets :
            \A v \in f : v[2] = 0 /\ v[1] > TheArgs.Lcrack}
  /\ HasHanded =>
       \A d \in Constrained : ~OnCrackFace(d[1], TheArgs.Lcrack)

C7_Witness ==
  /\ HasHanded
  /\ <<TheArgs.Lcrack, 0>> \in TheMesh.verts
  /\ \E d \in Constrained : d[1][2] = 0
  /\ \E f \in TheMesh.bfacets :
       /\ <<TheArgs.Lcrack, 0>> \in f
       /\ \E v \in f : v[2] = 0 /\ v[1] > TheArgs.Lcrack

\* The facets over which a linear form integrates its surface force.
LoadedFacets(Lform) ==
  LET tags == Lform.surface.measure.measure.subdomain_data.tags
  IN  {f \in DOMAIN tags : tags[f] = Lform.surface.measure.id}

OnTop(f, Ly) == \A v \in f : v[2] = Ly

\* C8: the linear form handed to the solver, and the one in the energy,
\* integrate the surface force (0, load) over exactly the boundary facets
\* of the top edge y = Ly, whatever facet tags the mesh generator returned,
\* and their volume force is (0, 0).
C8_LoadOnTopOnly ==
  /\ HasHanded =>
       /\ LoadedFacets(Handed.L) =
            {f \in TheMesh.bfacets : OnTop(f, TheArgs.Ly)}
       /\ Handed.L.surface.force = <<0, TheArgs.load>>
       /\ Handed.L.volume.force = <<0, 0>>
  /\ Len(calls) >= 18 =>
       /\ LoadedFacets(calls[18].args.form.L) =
            {f \in TheMesh.bfacets : OnTop(f, TheArgs.Ly)}
       /\ calls[18].args.form.L.surface.force = <<0, TheArgs.load>>
       /\ calls[18].args.form.L.volume.force = <<0, 0>>

C8_Witness ==
  /\ Len(calls) >= 18
  /\ w.scheme = "AllOne"
  /\ TheArgs.load # 0
  /\ \E f \in TheMesh.bfacets : ~OnTop(f, TheArgs.Ly)
  /\ LoadedFacets(Handed.L) # {}

\* C10: every Dirichlet condition built or handed to the solver is on the
\* sub-space V.sub(1) and constrains y-component dofs only.
C10_OnlyYComponent ==
  /\ \A i \in 1..Len(calls) :
       calls[i].fn = "fem.dirichletbc" =>
         /\ calls[i].args.V.comp = 1
         /\ \A d \in calls[i].args.dofs : d[2] = 1
  /\ HasHanded =>
       /\ \A i \in 1..Len(Handed.bcs) : Handed.bcs[i].space.comp = 1
       /\ \A d \in Constrained : d[2] = 1

C10_Witness ==
  /\ HasHanded
  /\ fn = "devoir"
  /\ \E d \in Handed.bcs[1].dofs : d[2] = 1
  /\ \E d \in Handed.bcs[2].dofs : d[2] = 1
  /\ \E v \in TheMesh.verts : <<v, 0>> \notin Constrained

Min(x, y) == IF x <= y THEN x ELSE y

\* The first n external calls of the other function when it is called with
\* the same keyword arguments and gets the same mesh, the list of Dirichlet
\* conditions being the one of the current function.
TwinTrace(n) ==
  LET other == Other(fn)
      i == StepIndex("bc_top") + 1
      mine == FrameBefore(fn, EnterFrame(fn, passed, NoFrame), w, i)
      theirs == FrameBefore(other, EnterFrame(other, passed, NoFrame), w, i)
  IN  FreshTrace(other, passed, w, Min(n, i - 1)) \o
      RunTrace(other, Bind(theirs, "bcs", mine.bcs), w, i, n)

\* C2 as stated: called with the same keyword arguments, the two functions
\* issue the same external calls with the same argument values at every
\* step, the list of Dirichlet conditions handed to LinearProblem apart.
C2_SameCallsButBcs == calls = TwinTrace(Len(calls))

\* C2, amended: called with the same keyword arguments, the two functions
\* issue the same external calls with the same argument values at every
\* step, apart from the list of Dirichlet conditions handed to
\* LinearProblem and, when delta_L is not passed, the value given to
\* fem.dirichletbc for the top condition, which is each function's own
\* default of delta_L.
C2_SameCallsButBcsAndDefault ==
  LET twin == TwinTrace(Len(calls))
  IN  /\ Len(twin) = Len(calls)
      /\ \A k \in 1..Len(calls) :
           IF Steps[k] = "bc_top" /\ "delta_L" \notin DOMAIN passed
             THEN /\ calls[k].fn = twin[k].fn
                  /\ calls[k].args.dofs = twin[k].args.dofs
                  /\ calls[k].args.V = twin[k].args.V
                  /\ calls[k].args.value = Defaults(fn).delta_L
                  /\ twin[k].args.value = Defaults(Other(fn)).delta_L
             ELSE calls[k] = twin[k]

C2_Witness ==
  /\ pc = "return"
  /\ "delta_L" \notin DOMAIN passed
  /\ "load" \in DOMAIN passed
  /\ calls[8].args.value # TwinTrace(8)[8].args.value
  /\ calls[20] = TwinTrace(20)[20]

DeltaAlternatives == {0, 300, 700}

\* The frame in which step number k of solve_elasticity_devoir_force runs
\* when delta_L is d and every other argument is the one of the current
\* call.
WithDelta(d, k) ==
  FrameBefore("force",
              [EnterFrame("force", passed, NoFrame) EXCEPT !.delta_L = d],
              w, k)

\* C9: in solve_elasticity_devoir_force, whatever delta_L is, the forms and
\* the list of Dirichlet conditions handed to LinearProblem and the energy
\* expression assembled are the same.
C9_DeltaIgnoredByForce ==
  fn = "force" /\ HasHanded =>
    \A d \in DeltaAlternatives :
      LET n == IF Len(calls) >= 18 THEN 18 ELSE 16
          twin == WithDelta(d, n)
      IN  /\ Handed = ExternalCall("linear_problem", twin).args
          /\ n = 18 => calls[18] = ExternalCall("assemble_scalar", twin)

C9_Witness ==
  /\ fn = "force"
  /\ Len(calls) >= 18
  /\ TheArgs.delta_L = 300
  /\ calls[8].args.value = 300
  /\ ExternalCall("bc_top", WithDelta(0, 8)).args.value = 0

====
